---- MODULE Spec2Model ----
(***************************************************************************)
(* A model of package cuckoo (d-ary bucketized cuckoo hashing): the table  *)
(* Cuckoo of src/cuckoo.go with its public operations NewCuckoo, Len,      *)
(* Search, Insert and Delete, and the internal steps tryInsert, tryUpdate, *)
(* tryAdd, tryGreedyAdd (the random-walk eviction) and tryGrow (rehash,    *)
(* grow and shrink).  The hash is xx_32 of src/hash.go, computed on 32-bit   *)
(* words.                                                                  *)
(*                                                                         *)
(* The tuning constants of src/config.go are scaled down so that the       *)
(* table fills, walks, rebuilds and reaches its size limits within a few   *)
(* keys: bshift and nhashshift are 1 here (3 in config.go), the shrink     *)
(* floor shrinkFloor is 1 (the literal 8 of tryGrow) and hashBits is 3.    *)
(* shrinkFactor, randomWalkCoefficient and rehashThreshold keep the        *)
(* values of config.go.                                                    *)
(***************************************************************************)
EXTENDS Integers, FiniteSets

\* ------------------------------------------------------------------------
\* Configuration (src/config.go), scaled.
bshift == 1
nhashshift == 1
shrinkFactor == 2
randomWalkCoefficient == 1
\* rehashThreshold = 0.9, kept as the fraction rehashNum / rehashDen.
rehashNum == 9
rehashDen == 10
\* The bound on logsize that NewCuckoo and tryGrow compare against.
hashBits == 3
\* tryGrow refuses to shrink a table whose logsize is at most this.
shrinkFloor == 1

\* The largest logsize a table may have.  hashBits is declared outside the
\* files modelled here; the design document gives it as 32 - bshift.
Lmax == hashBits

blen == 2 ^ bshift
bmask == blen - 1
nhash == 2 ^ nhashshift
nhashmask == nhash - 1

\* ------------------------------------------------------------------------
\* Bounds of the model.
MaxKey == 3
MaxVal == 1
\* Insert and Delete are started only while fewer rebuilds than this have
\* been installed (the counters ngrow, nshrink and nrehash are unbounded).
MaxRebuilds == 2

Keys == 0 .. MaxKey
\* One more key, for the runs in which a shrink has to fail: a shrink by
\* shrinkFactor fails only if more than MaxKey entries are left.
WideKeys == 0 .. MaxKey + 1
Values == 0 .. MaxVal
\* The values rand.Uint32() may return in reseed.
Seeds == {3, 50}
\* The arguments NewCuckoo is called with.
LogSizeArgs == (0 - 1) .. (hashBits + bshift + 1)

\* ------------------------------------------------------------------------
\* uint32 arithmetic.  A 32-bit word is the pair <<hi, lo>> of its two
\* 16-bit halves, so that every intermediate result stays a small number.
M16 == 2 ^ 16
M8 == 2 ^ 8

U32(hi, lo) == <<hi, lo>>

Add32(a, b) ==
  LET s == a[2] + b[2]
  IN  <<(a[1] + b[1] + (s \div M16)) % M16, s % M16>>

\* The full 32-bit product of two 16-bit numbers.
Mul16(x, y) ==
  LET x1 == x \div M8
      x0 == x % M8
      y1 == y \div M8
      y0 == y % M8
      m == (x1 * y0) + (x0 * y1)
      t == ((m % M8) * M8) + (x0 * y0)
  IN  <<(x1 * y1) + (m \div M8) + (t \div M16), t % M16>>

\* a * b modulo 2^32, from the product p of the low halves and the low
\* halves x, y of the two cross products.
mulJoin(p, x, y) == <<(p[1] + x + y) % M16, p[2]>>

Mul32(a, b) ==
  mulJoin(Mul16(a[2], b[2]), Mul16(a[1], b[2])[2], Mul16(a[2], b[1])[2])

RECURSIVE Xor16(_, _)
Xor16(x, y) ==
  IF x = 0 THEN y
  ELSE IF y = 0 THEN x
  ELSE (((x % 2) + (y % 2)) % 2) + (2 * Xor16(x \div 2, y \div 2))

RECURSIVE Or16(_, _)
Or16(x, y) ==
  IF x = 0 THEN y
  ELSE IF y = 0 THEN x
  ELSE (IF (x % 2) + (y % 2) > 0 THEN 1 ELSE 0) + (2 * Or16(x \div 2, y \div 2))

Xor32(a, b) == <<Xor16(a[1], b[1]), Xor16(a[2], b[2])>>

Or32(a, b) == <<Or16(a[1], b[1]), Or16(a[2], b[2])>>

\* a << n and a >> n for 0 < n < 32.
Shl32(a, n) ==
  IF n >= 16 THEN <<(a[2] * (2 ^ (n - 16))) % M16, 0>>
  ELSE <<((a[1] * (2 ^ n)) + (a[2] \div (2 ^ (16 - n)))) % M16,
         (a[2] * (2 ^ n)) % M16>>

Shr32(a, n) ==
  IF n >= 16 THEN <<0, a[1] \div (2 ^ (n - 16))>>
  ELSE <<a[1] \div (2 ^ n),
         (a[2] \div (2 ^ n)) + ((a[1] % (2 ^ n)) * (2 ^ (16 - n)))>>

\* a & (1<<n - 1), as a number, for n <= 16.
LowBits(a, n) == a[2] % (2 ^ n)

\* ------------------------------------------------------------------------
\* src/hash.go
xx_prime32_2 == U32(34283, 51831)
xx_prime32_3 == U32(49842, 44605)
xx_prime32_4 == U32(10196, 60207)
xx_prime32_5 == U32(5718, 26545)

\* h ^= h >> n
xorShift(h, n) == Xor32(h, Shr32(h, n))

\* h = ((h << 17) | (h >> (32 - 17))) * xx_prime32_4
rotMul(h) == Mul32(Or32(Shl32(h, 17), Shr32(h, 32 - 17)), xx_prime32_4)

xx_32(k, seed) ==
  xorShift(
    Mul32(xorShift(
            Mul32(xorShift(
                    rotMul(Add32(Add32(seed, xx_prime32_5), Mul32(k, xx_prime32_3))),
                    15),
                  xx_prime32_2),
            13),
          xx_prime32_3),
    16)

\* default hash function
defaultHash(k, seed) == xx_32(U32(0, k), U32(0, seed))

\* defaultHash of every key and seed of the model, computed once.
hashTable == [k \in WideKeys, s \in Seeds |-> defaultHash(k, s)]

\* ------------------------------------------------------------------------
\* src/cuckoo.go: the table.

\* var zero Value
zero == 0

Min(S) == CHOOSE x \in S : \A y \in S : x <= y

\* 1 << uint(n): a negative n converts to a huge shift count, which gives 0.
Shl1(n) == IF n < 0 THEN 0 ELSE 2 ^ n

emptyBucket == [keys |-> [i \in 0 .. blen - 1 |-> 0],
                vals |-> [i \in 0 .. blen - 1 |-> zero]]

\* alloc that makes one bucket less.
allocShort(n) == [b \in 0 .. n - 2 |-> emptyBucket]

alloc(n) == [b \in 0 .. n - 1 |-> emptyBucket]

\* The seed arrays reseed can produce.
SeedArrays == [0 .. nhash - 1 -> Seeds]

\* The zero value of the struct Cuckoo (also stands for a nil *Cuckoo).
zeroCuckoo ==
  [logsize |-> 0, buckets |-> alloc(0), nentries |-> 0,
   ngrow |-> 0, nshrink |-> 0, nrehash |-> 0,
   zeroValue |-> zero, zeroIsSet |-> FALSE,
   eitem |-> FALSE, ekey |-> 0, eval |-> zero,
   seed |-> [i \in 0 .. nhash - 1 |-> 0]]

\* newLogsize without the lower bound of 1.
newLogsizeUnclamped(logsize) == logsize - bshift

\* newLogsize that forgets to take bshift off the argument.
newLogsizeNoShift(logsize) == IF logsize <= 0 THEN 1 ELSE logsize

\* NewCuckoo: the logsize of the table built for the argument.
newLogsize(logsize) ==
  IF logsize - bshift <= 0 THEN 1 ELSE logsize - bshift

\* NewCuckooPanics that compares the argument before bshift is taken off.
NewCuckooPanicsRaw(logsize) == logsize > hashBits

\* NewCuckoo panics ("cuckoo: log size is too").
NewCuckooPanics(logsize) == newLogsize(logsize) > hashBits

\* NewCuckoo(logsize), with sd the seeds reseed draws.
NewCuckoo(logsize, sd) ==
  [zeroCuckoo EXCEPT !.buckets = alloc(Shl1(newLogsize(logsize))),
                     !.logsize = newLogsize(logsize),
                     !.seed = sd]

Len(t) == t.nentries

dohash(t, key) ==
  [i \in 0 .. nhash - 1 |-> LowBits(hashTable[key, t.seed[i]], t.logsize)]

\* Fisher-Yates shuffle; uses the lowest nhash*nhashshift bits of r.
RECURSIVE shuffleFrom(_, _, _)
shuffleFrom(h, r, j) ==
  IF j <= 0 THEN h
  ELSE LET i == (r % (nhashmask + 1)) % (j + 1)
       IN  shuffleFrom([h EXCEPT ![i] = h[j], ![j] = h[i]],
                       r \div (2 ^ nhashshift), j - 1)

shuffle(h, r) == shuffleFrom(h, r, nhash - 1)

\* The slots of the candidate buckets h in probing order: position p is
\* slot p % blen of bucket h[p \div blen].
Probes == 0 .. (nhash * blen) - 1

probeKey(t, h, p) == t.buckets[h[p \div blen]].keys[p % blen]

Search(t, k) ==
  IF k = 0
  THEN IF t.zeroIsSet = FALSE THEN <<zero, FALSE>> ELSE <<t.zeroValue, TRUE>>
  ELSE LET h == dohash(t, k)
           hit == {p \in Probes : probeKey(t, h, p) = k}
       IN  IF hit = {} THEN <<zero, FALSE>>
           ELSE <<t.buckets[h[Min(hit) \div blen]].vals[Min(hit) % blen], TRUE>>

\* deleteFrom that probes every candidate in the table as it was at the
\* call, so that a bucket listed twice is found to hold the key twice.
RECURSIVE deleteFromStale(_, _, _, _)
deleteFromStale(t, k, h, d) ==
  IF d >= nhash THEN t
  ELSE LET hit == {i \in 0 .. blen - 1 : t.buckets[h[d]].keys[i] = k}
       IN  IF hit = {} THEN deleteFromStale(t, k, h, d + 1)
           ELSE [deleteFromStale(t, k, h, d + 1)
                   EXCEPT !.nentries = @ - 1,
                          !.buckets[h[d]].keys[Min(hit)] = 0,
                          !.buckets[h[d]].vals[Min(hit)] = zero]

\* The loop of Delete over the candidate buckets, from candidate d on.
RECURSIVE deleteFrom(_, _, _, _)
deleteFrom(t, k, h, d) ==
  IF d >= nhash THEN t
  ELSE LET hit == {i \in 0 .. blen - 1 : t.buckets[h[d]].keys[i] = k}
       IN  IF hit = {} THEN deleteFrom(t, k, h, d + 1)
           ELSE deleteFrom([t EXCEPT !.nentries = @ - 1,
                                     !.buckets[h[d]].keys[Min(hit)] = 0,
                                     !.buckets[h[d]].vals[Min(hit)] = zero],
                           k, h, d + 1)

\* deleteEntry that forgets to count the removed entry.
deleteEntryKeepCount(t, k) ==
  IF k = 0 THEN [t EXCEPT !.zeroIsSet = FALSE, !.zeroValue = zero]
  ELSE [deleteFrom(t, k, dohash(t, k), 0) EXCEPT !.nentries = t.nentries]

\* deleteEntry that counts a removal whether or not the key was found.
deleteEntryAlwaysCount(t, k) ==
  IF k = 0 THEN [t EXCEPT !.zeroIsSet = FALSE, !.zeroValue = zero]
  ELSE [deleteFrom(t, k, dohash(t, k), 0) EXCEPT !.nentries = t.nentries - 1]

\* Delete up to the shrink test.
deleteEntry(t, k) ==
  IF k = 0 THEN [t EXCEPT !.zeroIsSet = FALSE, !.zeroValue = zero]
  ELSE deleteFrom(t, k, dohash(t, k), 0)

\* shrinkWanted that compares with the number of cells.
shrinkWantedBelowFull(t) == Shl1(t.logsize + bshift) > t.nentries

\* The shrink test of Delete.
shrinkWanted(t) == Shl1(t.logsize + bshift - shrinkFactor) > t.nentries

\* insertZero that also writes the value to the first slot of the array.
insertZeroInSlot(t, v) ==
  [t EXCEPT !.zeroIsSet = TRUE, !.zeroValue = v, !.buckets[0].vals[0] = v]

\* Insert of the key 0.
insertZero(t, v) == [t EXCEPT !.zeroIsSet = TRUE, !.zeroValue = v]

\* belowRehashThreshold with the cutoff at one half.
belowRehashThresholdHalf(t) ==
  t.nentries * 2 < Cardinality(DOMAIN t.buckets) * blen

\* LoadFactor() < rehashThreshold
belowRehashThreshold(t) ==
  t.nentries * rehashDen < rehashNum * (Cardinality(DOMAIN t.buckets) * blen)

addAt(t, k, v, ibucket, index) ==
  [t EXCEPT !.buckets[ibucket].keys[index] = k,
            !.buckets[ibucket].vals[index] = v]

\* tryUpdate that does not look for the key.
tryUpdateBlind(t, k, v, h) ==
  LET free == {p \in Probes : probeKey(t, h, p) = 0}
  IN  [updated |-> FALSE,
       freeSlot |-> free # {},
       ibucket |-> IF free = {} THEN 0 ELSE h[Min(free) \div blen],
       index |-> IF free = {} THEN 0 ELSE Min(free) % blen,
       t |-> t]

\* tryUpdate that never reports a free slot.
tryUpdateNoFree(t, k, v, h) ==
  LET hit == {p \in Probes : probeKey(t, h, p) = k}
  IN  [updated |-> hit # {},
       freeSlot |-> FALSE,
       ibucket |-> 0,
       index |-> 0,
       t |-> IF hit = {} THEN t
             ELSE [t EXCEPT !.buckets[h[Min(hit) \div blen]].vals[Min(hit) % blen] = v]]

tryUpdate(t, k, v, h) ==
  LET hit == {p \in Probes : probeKey(t, h, p) = k}
      free == {p \in Probes : probeKey(t, h, p) = 0
                              /\ (hit = {} \/ p < Min(hit))}
  IN  [updated |-> hit # {},
       freeSlot |-> free # {},
       ibucket |-> IF free = {} THEN 0 ELSE h[Min(free) \div blen],
       index |-> IF free = {} THEN 0 ELSE Min(free) % blen,
       t |-> IF hit = {} THEN t
             ELSE [t EXCEPT !.buckets[h[Min(hit) \div blen]].vals[Min(hit) % blen] = v]]

\* tryAdd that does not leave out the bucket except.
tryAddAnywhere(t, k, v, h, ignore, except) ==
  IF k = 0
  THEN [added |-> FALSE, t |-> [t EXCEPT !.zeroIsSet = TRUE, !.zeroValue = v]]
  ELSE LET free == {p \in Probes : probeKey(t, h, p) = 0}
       IN  IF free = {} THEN [added |-> FALSE, t |-> t]
           ELSE [added |-> TRUE,
                 t |-> addAt(t, k, v, h[Min(free) \div blen], Min(free) % blen)]

tryAdd(t, k, v, h, ignore, except) ==
  IF k = 0
  THEN [added |-> FALSE, t |-> [t EXCEPT !.zeroIsSet = TRUE, !.zeroValue = v]]
  ELSE LET free == {p \in Probes : /\ ~(ignore /\ except = h[p \div blen])
                                   /\ probeKey(t, h, p) = 0}
       IN  IF free = {} THEN [added |-> FALSE, t |-> t]
           ELSE [added |-> TRUE,
                 t |-> addAt(t, k, v, h[Min(free) \div blen], Min(free) % blen)]

\* maxSteps with one step too many.
maxStepsOff(t) == (2 + t.logsize) * randomWalkCoefficient

\* The step budget of tryGreedyAdd.
maxSteps(t) == (1 + t.logsize) * randomWalkCoefficient

\* The random words one step of tryGreedyAdd can draw: only the low
\* nhash*nhashshift + bshift + nhashshift bits of rand.Int63() are read.
RandomWords == 0 .. (2 ^ ((nhash * nhashshift) + bshift + nhashshift)) - 1

\* greedyStep that goes on with the pair it came with instead of the
\* evicted one.
greedyStepKeepsHand(t, k, v, h, r) ==
  LET hs == shuffle(h, r)
      r2 == r \div (2 ^ (nhash * nhashshift))
      i == r2 % (bmask + 1)
      d == (r2 \div (2 ^ bshift)) % (nhashmask + 1)
      hval == hs[d]
      ekey == t.buckets[hval].keys[i]
      eval == t.buckets[hval].vals[i]
      t1 == addAt(t, k, v, hval, i)
      ehash == dohash(t1, ekey)
      res == tryAdd(t1, ekey, eval, ehash, TRUE, hval)
  IN  [added |-> res.added, t |-> res.t, k |-> k, v |-> v, h |-> hs,
       hval |-> hval, i |-> i]

\* One iteration of the loop of tryGreedyAdd on table t with (k, v) in hand,
\* candidates h and random word r.
greedyStep(t, k, v, h, r) ==
  LET hs == shuffle(h, r)
      r2 == r \div (2 ^ (nhash * nhashshift))
      i == r2 % (bmask + 1)
      d == (r2 \div (2 ^ bshift)) % (nhashmask + 1)
      hval == hs[d]
      ekey == t.buckets[hval].keys[i]
      eval == t.buckets[hval].vals[i]
      t1 == addAt(t, k, v, hval, i)
      ehash == dohash(t1, ekey)
      res == tryAdd(t1, ekey, eval, ehash, TRUE, hval)
  IN  [added |-> res.added, t |-> res.t, k |-> ekey, v |-> eval, h |-> ehash,
       hval |-> hval, i |-> i]

\* suspend that does not mark the entry as pending.
suspendUnmarked(t, k, v) == [t EXCEPT !.ekey = k, !.eval = v]

\* tryGreedyAdd with the budget exhausted.
suspend(t, k, v) == [t EXCEPT !.ekey = k, !.eval = v, !.eitem = TRUE]

\* consume that leaves the entry marked as pending.
consumeKeepMark(t) == t

\* tryGrow: the suspended entry has been reinserted (cnew.eitem = false).
consume(t) == [t EXCEPT !.eitem = FALSE]

\* growCopy that forgets cnew.logsize += delta.
growCopyNoDelta(t, delta, sd) ==
  [t EXCEPT !.seed = sd,
            !.nrehash = IF delta = 0 THEN @ + 1 ELSE @,
            !.ngrow = IF delta > 0 THEN @ + 1 ELSE @,
            !.nshrink = IF delta < 0 THEN @ + 1 ELSE @,
            !.buckets = alloc(Shl1(t.logsize))]

\* growCopy that starts the count of the new table at 0.
growCopyZeroCount(t, delta, sd) ==
  [t EXCEPT !.seed = sd,
            !.nrehash = IF delta = 0 THEN @ + 1 ELSE @,
            !.ngrow = IF delta > 0 THEN @ + 1 ELSE @,
            !.nshrink = IF delta < 0 THEN @ + 1 ELSE @,
            !.logsize = @ + delta,
            !.nentries = 0,
            !.buckets = alloc(Shl1(t.logsize + delta))]

\* tryGrow up to the allocation: the copy of c, reseeded, with its counter
\* and logsize changed.
growCopy(t, delta, sd) ==
  [t EXCEPT !.seed = sd,
            !.nrehash = IF delta = 0 THEN @ + 1 ELSE @,
            !.ngrow = IF delta > 0 THEN @ + 1 ELSE @,
            !.nshrink = IF delta < 0 THEN @ + 1 ELSE @,
            !.logsize = @ + delta,
            !.buckets = alloc(Shl1(t.logsize + delta))]

\* tryGrow returns false at once: a shrink of a table at the floor.
growRefused(t, delta) == delta < 0 /\ t.logsize <= shrinkFloor

\* growPanics with the comparison off by one.
growPanicsEarly(t, delta) == ~growRefused(t, delta) /\ t.logsize + delta >= hashBits

\* growPanics with the test left out.
growPanicsNever(t, delta) == FALSE

\* tryGrow panics ("cuckoo: cannot grow any furher").
growPanics(t, delta) == ~growRefused(t, delta) /\ t.logsize + delta > hashBits

\* The slots of the old bucket array in the order tryGrow visits them:
\* position q is slot q % blen of bucket q \div blen.
oldKey(t, q) == t.buckets[q \div blen].keys[q % blen]

\* oldVal that reads the first slot of the bucket.
oldValFirst(t, q) == t.buckets[q \div blen].vals[0]

oldVal(t, q) == t.buckets[q \div blen].vals[q % blen]

\* occupiedFrom that leaves out the last slot of the array.
occupiedFromButLast(t, q) ==
  {x \in q .. (Cardinality(DOMAIN t.buckets) * blen) - 2 : oldKey(t, x) # 0}

\* The occupied slots of t at position q or later.
occupiedFrom(t, q) ==
  {x \in q .. (Cardinality(DOMAIN t.buckets) * blen) - 1 : oldKey(t, x) # 0}

\* ------------------------------------------------------------------------
\* The state machine.
\*   c      the table *c the public operations are called on
\*   cnew   the table under construction in tryGrow (zeroCuckoo outside it)
\*   pc     where the running operation stands ("idle" between operations)
\*   op     the running public operation and its arguments
\*   gi     the loop variable i of Insert and of Delete around tryGrow
\*   pos    tryGrow: the next slot of the old bucket array to visit
\*   w      tryGreedyAdd: the pair in hand, its candidates, the step counter
\*   ctx    the caller of the running tryInsert or tryGreedyAdd: "Insert"
\*          (on c), or, within tryGrow (on cnew), "migrate" for the loop over
\*          the old buckets and "reinsert" for the suspended entry
\*   gmap   the built-in map the tests compare the table with
\*   pre    c and gmap as they were when the running operation was called
\*   ret    what the last Search returned
\*   rd     a second goroutine that calls Search on the same table: where
\*          it stands, its key, the candidates it computed, what Search
\*          would have returned when it started, and its result
VARIABLES c, cnew, pc, op, gi, pos, w, ctx, gmap, pre, ret, rd

vars == <<c, cnew, pc, op, gi, pos, w, ctx, gmap, pre, ret, rd>>

noOp == [name |-> "", k |-> 0, v |-> zero]
noWalk == [k |-> 0, v |-> zero, h |-> [i \in 0 .. nhash - 1 |-> 0], step |-> 0]
notFound == <<zero, FALSE>>
emptyMap == [k \in WideKeys |-> notFound]
noPre == [t |-> zeroCuckoo, m |-> emptyMap]
noRead == [pc |-> "idle", k |-> 0, h |-> [i \in 0 .. nhash - 1 |-> 0],
           before |-> <<zero, FALSE>>, ret |-> <<zero, FALSE>>]

\* The table the running tryInsert or tryGreedyAdd works on.
target == IF ctx = "Insert" THEN c ELSE cnew

\* tryGrow's argument in the loops of Insert (i) and Delete (-i).
delta == IF op.name = "Insert" THEN gi ELSE 0 - gi

rebuilds(t) == t.ngrow + t.nshrink + t.nrehash

Init ==
  /\ c = zeroCuckoo
  /\ cnew = zeroCuckoo
  /\ pc = "NewCuckoo"
  /\ \E logsize \in LogSizeArgs : op = [name |-> "NewCuckoo", k |-> logsize, v |-> zero]
  /\ gi = 0
  /\ pos = 0
  /\ w = noWalk
  /\ ctx = ""
  /\ gmap = emptyMap
  /\ pre = noPre
  /\ ret = notFound
  /\ rd = noRead

NewCuckooCall ==
  /\ pc = "NewCuckoo"
  /\ IF NewCuckooPanics(op.k)
     THEN pc' = "panic" /\ c' = c
     ELSE \E sd \in SeedArrays : c' = NewCuckoo(op.k, sd) /\ pc' = "return"
  /\ UNCHANGED <<cnew, op, gi, pos, w, ctx, gmap, pre, ret, rd>>

\* tryGrow returns ok to the loop of Insert or of Delete.
tryGrowReturns(ok) ==
  /\ pos' = 0
  /\ IF op.name = "Insert"
     THEN IF ok
          THEN pc' = "tryInsert" /\ gi' = 0 /\ ctx' = "Insert"
          ELSE pc' = "tryGrow" /\ gi' = gi + 1 /\ ctx' = "Insert"
     ELSE IF ok \/ gi - 1 <= 0
          THEN pc' = "return" /\ gi' = 0 /\ ctx' = ""
          ELSE pc' = "tryGrow" /\ gi' = gi - 1 /\ ctx' = ""

\* tryInsert returns ok, its receiver being t by then.
tryInsertReturns(t, ok) ==
  IF ctx = "Insert"
  THEN /\ c' = t
       /\ cnew' = cnew
       /\ ctx' = IF ok THEN "" ELSE ctx
       /\ pc' = IF ok THEN "return" ELSE "tryGrow"
       /\ gi' = IF ok \/ belowRehashThreshold(t) THEN 0 ELSE 1
  ELSE /\ c' = c
       /\ cnew' = IF ok THEN consume(t) ELSE t
       /\ ctx' = ctx
       /\ pc' = IF ok THEN "commit" ELSE "abandon"
       /\ gi' = gi

\* tryGreedyAdd returns ok, its receiver being t by then.
tryGreedyAddReturns(t, ok) ==
  IF ctx = "migrate"
  THEN /\ c' = c
       /\ cnew' = t
       /\ ctx' = ctx
       /\ pc' = IF ok THEN "migrate" ELSE "abandon"
       /\ gi' = gi
  ELSE tryInsertReturns(IF ok THEN [t EXCEPT !.nentries = @ + 1] ELSE t, ok)

Insert(k, v) ==
  /\ pc = "idle"
  /\ rebuilds(c) < MaxRebuilds
  /\ op' = [name |-> "Insert", k |-> k, v |-> v]
  /\ pre' = [t |-> c, m |-> gmap]
  /\ gmap' = [gmap EXCEPT ![k] = <<v, TRUE>>]
  /\ IF k = 0
     THEN c' = insertZero(c, v) /\ pc' = "return" /\ ctx' = ""
     ELSE c' = c /\ pc' = "tryInsert" /\ ctx' = "Insert"
  /\ UNCHANGED <<cnew, gi, pos, w, ret, rd>>

tryInsert ==
  /\ pc = "tryInsert"
  /\ LET k == IF ctx = "Insert" THEN op.k ELSE target.ekey
         v == IF ctx = "Insert" THEN op.v ELSE target.eval
         h == dohash(target, k)
         u == tryUpdate(target, k, v, h)
     IN  IF u.updated
         THEN tryInsertReturns(u.t, TRUE) /\ w' = w
         ELSE IF u.freeSlot
         THEN /\ tryInsertReturns(
                   [addAt(target, k, v, u.ibucket, u.index) EXCEPT !.nentries = @ + 1],
                   TRUE)
              /\ w' = w
         ELSE /\ pc' = "tryGreedyAdd"
              /\ w' = [k |-> k, v |-> v, h |-> h, step |-> 0]
              /\ UNCHANGED <<c, cnew, ctx, gi>>
  /\ UNCHANGED <<op, pos, gmap, pre, ret, rd>>

tryGreedyAdd(r) ==
  /\ pc = "tryGreedyAdd"
  /\ w.step < maxSteps(target)
  /\ LET g == greedyStep(target, w.k, w.v, w.h, r)
     IN  IF g.added
         THEN tryGreedyAddReturns(g.t, TRUE) /\ w' = noWalk
         ELSE /\ IF ctx = "Insert" THEN c' = g.t /\ cnew' = cnew
                                   ELSE cnew' = g.t /\ c' = c
              /\ w' = [k |-> g.k, v |-> g.v, h |-> g.h, step |-> w.step + 1]
              /\ UNCHANGED <<pc, ctx, gi>>
  /\ UNCHANGED <<op, pos, gmap, pre, ret, rd>>

tryGreedyAddFails ==
  /\ pc = "tryGreedyAdd"
  /\ w.step >= maxSteps(target)
  /\ tryGreedyAddReturns(suspend(target, w.k, w.v), FALSE)
  /\ w' = noWalk
  /\ UNCHANGED <<op, pos, gmap, pre, ret, rd>>

tryGrow(sd) ==
  /\ pc = "tryGrow"
  /\ IF growRefused(c, delta)
     THEN tryGrowReturns(FALSE) /\ cnew' = cnew
     ELSE IF growPanics(c, delta)
     THEN pc' = "panic" /\ UNCHANGED <<cnew, gi, pos, ctx>>
     ELSE /\ cnew' = growCopy(c, delta, sd)
          /\ pos' = 0
          /\ pc' = "migrate"
          /\ ctx' = "migrate"
          /\ gi' = gi
  /\ UNCHANGED <<c, op, w, gmap, pre, ret, rd>>

\* The loop of tryGrow over the old buckets, up to and including the next
\* occupied slot, and the test of cnew.eitem after it.
migrate ==
  /\ pc = "migrate"
  /\ LET occ == occupiedFrom(c, pos)
         q == Min(occ)
         h == dohash(cnew, oldKey(c, q))
         a == tryAdd(cnew, oldKey(c, q), oldVal(c, q), h, FALSE, 0)
     IN  IF occ = {}
         THEN /\ IF cnew.eitem THEN pc' = "tryInsert" /\ ctx' = "reinsert"
                               ELSE pc' = "commit" /\ ctx' = ctx
              /\ UNCHANGED <<cnew, pos, w>>
         ELSE IF a.added
         THEN /\ cnew' = a.t
              /\ pos' = q + 1
              /\ UNCHANGED <<pc, ctx, w>>
         ELSE /\ pc' = "tryGreedyAdd"
              /\ pos' = q + 1
              /\ w' = [k |-> oldKey(c, q), v |-> oldVal(c, q), h |-> h, step |-> 0]
              /\ UNCHANGED <<cnew, ctx>>
  /\ UNCHANGED <<c, op, gi, gmap, pre, ret, rd>>

\* The deferred function of tryGrow with ok set: *c = *cnew.
growCommit ==
  /\ pc = "commit"
  /\ c' = cnew
  /\ cnew' = zeroCuckoo
  /\ tryGrowReturns(TRUE)
  /\ UNCHANGED <<op, w, gmap, pre, ret, rd>>

\* The deferred function of tryGrow with ok unset: cnew is dropped.
growAbandon ==
  /\ pc = "abandon"
  /\ c' = c
  /\ cnew' = zeroCuckoo
  /\ tryGrowReturns(FALSE)
  /\ UNCHANGED <<op, w, gmap, pre, ret, rd>>

Delete(k) ==
  /\ pc = "idle"
  /\ rebuilds(c) < MaxRebuilds
  /\ op' = [name |-> "Delete", k |-> k, v |-> zero]
  /\ pre' = [t |-> c, m |-> gmap]
  /\ gmap' = [gmap EXCEPT ![k] = notFound]
  /\ c' = deleteEntry(c, k)
  /\ IF k # 0 /\ shrinkWanted(c') /\ shrinkFactor > 0
     THEN pc' = "tryGrow" /\ gi' = shrinkFactor
     ELSE pc' = "return" /\ gi' = gi
  /\ UNCHANGED <<cnew, pos, w, ctx, ret, rd>>

SearchCall(k) ==
  /\ pc = "idle"
  /\ op' = [name |-> "Search", k |-> k, v |-> zero]
  /\ pre' = [t |-> c, m |-> gmap]
  /\ ret' = Search(c, k)
  /\ pc' = "return"
  /\ UNCHANGED <<c, cnew, gi, pos, w, ctx, gmap, rd>>

\* The operation returns to its caller.
return ==
  /\ pc = "return"
  /\ pc' = "idle"
  /\ op' = noOp
  /\ pre' = noPre
  /\ ret' = notFound
  /\ UNCHANGED <<c, cnew, gi, pos, w, ctx, gmap, rd>>

Next ==
  \/ NewCuckooCall
  \/ \E k \in Keys, v \in Values : Insert(k, v)
  \/ tryInsert
  \/ \E r \in RandomWords : tryGreedyAdd(r)
  \/ tryGreedyAddFails
  \/ \E sd \in SeedArrays : tryGrow(sd)
  \/ migrate
  \/ growCommit
  \/ growAbandon
  \/ \E k \in Keys : Delete(k)
  \/ \E k \in Keys : SearchCall(k)
  \/ return

Spec == Init /\ [][Next]_vars

\* The same operations called with the keys WideKeys and the one value
\* zero, without Search: enough entries for a shrink to fail.
ShrinkNext ==
  \/ NewCuckooCall
  \/ \E k \in WideKeys : Insert(k, zero)
  \/ tryInsert
  \/ \E r \in RandomWords : tryGreedyAdd(r)
  \/ tryGreedyAddFails
  \/ \E sd \in SeedArrays : tryGrow(sd)
  \/ migrate
  \/ growCommit
  \/ growAbandon
  \/ \E k \in WideKeys : Delete(k)
  \/ return

ShrinkSpec == Init /\ [][ShrinkNext]_vars

\* ------------------------------------------------------------------------
\* A reader goroutine: Search(k) called on the table while tryGrow runs on
\* it.  Nothing orders the reads of Search against the writes of tryGrow,
\* so the deferred *c = *cnew may fall between any two of them; the reader
\* is taken at one such place, between dohash and the loop over the
\* candidate buckets.

\* The loop of Search over the candidates h, from candidate d on, on the
\* table as it is now: c.buckets[int(hval)] is range-checked.
RECURSIVE probeFrom(_, _, _, _)
probeFrom(t, k, h, d) ==
  IF d >= nhash THEN [panic |-> FALSE, ret |-> <<zero, FALSE>>]
  ELSE IF h[d] \notin DOMAIN t.buckets THEN [panic |-> TRUE, ret |-> <<zero, FALSE>>]
  ELSE LET hit == {i \in 0 .. blen - 1 : t.buckets[h[d]].keys[i] = k}
       IN  IF hit # {}
           THEN [panic |-> FALSE, ret |-> <<t.buckets[h[d]].vals[Min(hit)], TRUE>>]
           ELSE probeFrom(t, k, h, d + 1)

\* Search(k) up to and including dohash, called while the writer is in
\* tryGrow with the rebuilt table ready to be installed.
readerHash(k) ==
  /\ rd.pc = "idle"
  /\ pc = "commit"
  /\ rd' = [pc |-> IF k = 0 THEN "done" ELSE "probe",
            k |-> k,
            h |-> IF k = 0 THEN noRead.h ELSE dohash(c, k),
            before |-> Search(c, k),
            ret |-> IF k = 0 THEN Search(c, k) ELSE noRead.ret]
  /\ UNCHANGED <<c, cnew, pc, op, gi, pos, w, ctx, gmap, pre, ret>>

\* The loop of Search over the candidate buckets.
readerProbe ==
  /\ rd.pc = "probe"
  /\ LET r == probeFrom(c, rd.k, rd.h, 0)
     IN  rd' = [rd EXCEPT !.pc = IF r.panic THEN "panic" ELSE "done",
                          !.ret = r.ret]
  /\ UNCHANGED <<c, cnew, pc, op, gi, pos, w, ctx, gmap, pre, ret>>

\* The reader's Search returns.
readerReturn ==
  /\ rd.pc = "done"
  /\ rd' = noRead
  /\ UNCHANGED <<c, cnew, pc, op, gi, pos, w, ctx, gmap, pre, ret>>

\* The writer alone while no Search of the reader is under way; once one
\* is, the writer takes the step that installs the rebuilt table and then
\* waits for the reader.
ConcNext ==
  \/ (rd.pc = "idle" \/ pc = "commit") /\ Next
  \/ \E k \in Keys : readerHash(k)
  \/ readerProbe
  \/ readerReturn

ConcSpec == Init /\ [][ConcNext]_vars

\* ------------------------------------------------------------------------
\* Properties.

\* The number of key/value cells of t.
cells(t) == Cardinality(DOMAIN t.buckets) * blen

\* The keys a map holds.
live(m) == {k \in DOMAIN m : m[k][2]}

\* The public operation `name` has run to its end and is about to return.
returned(name) == pc = "return" /\ op.name = name

\* C1 (map equivalence): when Insert, Delete or Search returns, Search(k)
\* gives (v, true) exactly for the keys inserted and not deleted since, with
\* v the value of the latest Insert, and not found for every other key,
\* whatever walks, rehashes, grows and shrinks happened on the way.
MapEquivalence ==
  (pc = "return" /\ op.name \in {"Insert", "Delete", "Search"})
    => /\ \A k \in Keys : Search(c, k) = gmap[k]
       /\ op.name = "Search" => ret = gmap[op.k]

\* An Insert that went through a failed walk and a grow returns with three
\* keys live and one key absent.
MapEquivalenceWitness ==
  /\ returned("Insert")
  /\ c.ngrow > pre.t.ngrow
  /\ Cardinality(live(gmap)) = 3
  /\ Search(c, op.k) = <<op.v, TRUE>>

\* C2 (count accuracy): whenever a public operation has returned, Len()
\* is the number of live keys, the key 0 included.
CountAccuracy ==
  pc \in {"idle", "return"} => Len(c) = Cardinality(live(gmap))

\* C3 (delete observes): when Delete(k) returns, Search(k) reports not
\* found and Len() is one less than before if k was present, and as before
\* if it was absent.
DeleteObserves ==
  returned("Delete")
    => /\ Search(c, op.k)[2] = FALSE
       /\ Len(c) = Len(pre.t) - (IF pre.m[op.k][2] THEN 1 ELSE 0)

\* C4 (idempotent update): when Insert(k, v) returns, Search(k) = (v, true),
\* every other key is as before, and Len() is as before if k was present
\* and one more if it was not (so Insert(k,v); Insert(k,v') adds one in
\* total).
IdempotentUpdate ==
  returned("Insert")
    => /\ Search(c, op.k) = <<op.v, TRUE>>
       /\ \A k \in Keys \ {op.k} : Search(c, k) = Search(pre.t, k)
       /\ Len(c) = Len(pre.t) + (IF pre.m[op.k][2] THEN 0 ELSE 1)

\* C5 (zero-key equivalence): an operation on the key 0 answers as the same
\* operation on any other key does: Search(0) agrees with the map, and
\* Len() changes by as much as the number of live keys changes.
ZeroKeyEquivalence ==
  (pc = "return" /\ op.name \in {"Insert", "Delete", "Search"} /\ op.k = 0)
    => /\ Search(c, 0) = gmap[0]
       /\ Len(c) - Len(pre.t)
            = Cardinality(live(gmap)) - Cardinality(live(pre.m))

\* C6 as stated (insert always succeeds): no Insert ends in a fatal
\* condition.
InsertNeverFatal == ~(pc = "panic" /\ op.name = "Insert")

\* A bound on the steps an operation still has to take, as a number in
\* base rankBase with the digits: the phase of Insert (before the first
\* rebuild, rebuilding, after it), the deltas left to try, the old slots
\* left to migrate, and the walk steps left.
rankBase == 4 + ((2 ^ hashBits) * blen) + ((1 + hashBits) * randomWalkCoefficient)

rankPhase ==
  IF pc \in {"return", "panic", "idle"} THEN 0
  ELSE IF op.name = "Insert" /\ ctx = "Insert" /\ pc \in {"tryInsert", "tryGreedyAdd"}
       THEN IF rebuilds(c) = rebuilds(pre.t) THEN 2 ELSE 0
       ELSE 1

rankDeltas ==
  IF pc \in {"tryGrow", "migrate", "commit", "abandon"} \/ ctx \in {"migrate", "reinsert"}
  THEN IF op.name = "Insert" THEN (hashBits + 1) - (c.logsize + gi) ELSE gi
  ELSE 0

rankSlots ==
  IF pc = "tryGrow" THEN cells(c) + 3
  ELSE IF pc = "migrate" \/ (pc = "tryGreedyAdd" /\ ctx = "migrate")
       THEN (2 + cells(c)) - pos
  ELSE IF pc \in {"tryInsert", "tryGreedyAdd"} /\ ctx = "reinsert" THEN 1
  ELSE 0

rankWalk ==
  IF pc = "tryInsert" THEN maxSteps(target) + 2
  ELSE IF pc = "tryGreedyAdd" THEN (1 + maxSteps(target)) - w.step
  ELSE 0

rank == (((((rankPhase * rankBase) + rankDeltas) * rankBase) + rankSlots) * rankBase)
        + rankWalk

\* C6 as amended: every step of an Insert lowers the bound rank, which
\* never goes below 0, so Insert ends; when it returns, k is present with
\* v; a rebuild that failed is followed by the rebuild with the next
\* delta; and the only other end is the panic of tryGrow, taken when
\* logsize + delta would exceed hashBits.
InsertTerminates ==
  [][(op.name = "Insert" /\ pc \notin {"return", "panic"})
       => /\ rank' < rank
          /\ rank' >= 0
          /\ pc' = "return" => Search(c', op.k) = <<op.v, TRUE>>
          /\ pc = "abandon" => (pc' = "tryGrow" /\ gi' = gi + 1 /\ c' = c)
          /\ pc' = "panic" => (pc = "tryGrow" /\ c.logsize + gi > hashBits)]_vars

\* An Insert returns after the rebuilds with the first deltas had failed.
InsertTerminatesWitness ==
  /\ returned("Insert")
  /\ c.logsize >= pre.t.logsize + 2
  /\ Search(c, op.k) = <<op.v, TRUE>>

\* C7 (rebuild preserves contents): the step that installs a rebuilt table
\* (grow, rehash or shrink) leaves every key that was present, the key 0
\* and the suspended entry included, present with its value, and makes no
\* absent key present.
RebuildPreservesContents ==
  [][pc = "commit"
       => \A k \in Keys :
            Search(c', k) = IF c.eitem /\ k = c.ekey THEN <<c.eval, TRUE>>
                            ELSE Search(c, k)]_vars

\* A rebuild has just been installed in an Insert: the suspended entry is
\* placed and counted, the key 0 is live, two more entries were migrated.
RebuildPreservesContentsWitness ==
  /\ pc = "tryInsert" /\ ctx = "Insert"
  /\ rebuilds(c) = rebuilds(pre.t) + 1
  /\ c.nentries = pre.t.nentries + 1
  /\ c.nentries = 3
  /\ c.zeroIsSet
  /\ ~c.eitem

LoadFactorBound ==
  /\ c.nentries <= cells(c)
  /\ cnew.nentries <= cells(cnew)

\* The table is full while an entry is suspended.
LoadFactorBoundWitness ==
  /\ c.eitem
  /\ c.nentries = cells(c)
  /\ pc = "tryGrow"

\* C10 as stated (construction): for an accepted log_size >= 0 the new
\* table has exactly 2^log_size buckets, no entries, no zero cell, no
\* suspended entry, and Search finds nothing.
ConstructionBuckets ==
  (returned("NewCuckoo") /\ op.k >= 0)
    => /\ Cardinality(DOMAIN c.buckets) = 2 ^ op.k
       /\ Len(c) = 0 /\ ~c.zeroIsSet /\ ~c.eitem
       /\ \A k \in Keys : Search(c, k) = notFound

\* C10 as amended: for every log_size NewCuckoo accepts, the new table has
\* 2^(log_size - bshift) buckets, and 2 buckets when log_size - bshift < 1
\* (so 2^log_size cells when log_size > bshift); it has no entries, no zero
\* cell, no suspended entry, and Search finds nothing.
ConstructionCells ==
  returned("NewCuckoo")
    => /\ Cardinality(DOMAIN c.buckets)
            = (IF op.k - bshift >= 1 THEN 2 ^ (op.k - bshift) ELSE 2)
       /\ c.logsize <= hashBits
       /\ Len(c) = 0 /\ ~c.zeroIsSet /\ ~c.eitem
       /\ \A k \in Keys : Search(c, k) = notFound

\* NewCuckoo has returned a table of more than two buckets.
ConstructionCellsWitness ==
  /\ returned("NewCuckoo")
  /\ op.k - bshift >= 2
  /\ Cardinality(DOMAIN c.buckets) = 2 ^ (op.k - bshift)

InvalidLogSizeFatal ==
  returned("NewCuckoo") => (op.k >= 0 /\ op.k <= hashBits)

\* C12 as amended: NewCuckoo ends in a fatal condition, and builds no
\* table, exactly when log_size - bshift exceeds hashBits; every other
\* log_size, negative ones included, returns a table, of logsize
\* max(1, log_size - bshift).
LogSizeTooLargeFatal ==
  (op.name = "NewCuckoo" /\ pc # "NewCuckoo")
    => IF op.k - bshift > hashBits
       THEN pc = "panic" /\ c = zeroCuckoo
       ELSE /\ pc = "return"
            /\ c.logsize = (IF op.k - bshift >= 1 THEN op.k - bshift ELSE 1)
            /\ Cardinality(DOMAIN c.buckets) = 2 ^ c.logsize

\* NewCuckoo has ended in the fatal condition for a log_size that is too
\* large.
LogSizeTooLargeFatalWitness ==
  /\ pc = "panic"
  /\ op.name = "NewCuckoo"
  /\ op.k - bshift > hashBits
  /\ c = zeroCuckoo

\* C13 (capacity exhaustion is fatal, L stays bounded): a rebuild whose
\* target logsize + delta would exceed Lmax installs no table and ends in
\* the fatal condition, from which nothing goes on; so the logsize of the
\* table, and of a table under construction, never exceeds Lmax.
CapacityExhaustionFatal ==
  [][/\ c'.logsize <= Lmax
     /\ cnew'.logsize <= Lmax
     /\ (pc = "tryGrow" /\ c.logsize + delta > Lmax)
          => (pc' = "panic" /\ c' = c /\ cnew' = zeroCuckoo)
     /\ pc # "panic"]_vars

\* A grow of a table of the largest logsize has ended in the fatal
\* condition, the table being as it was.
CapacityExhaustionFatalWitness ==
  /\ pc = "panic"
  /\ op.name = "Insert"
  /\ c.logsize = Lmax
  /\ gi >= 1
  /\ cnew = zeroCuckoo

\* C14 (reads during a grow are OK): a Search(k) of a reader that runs
\* while tryGrow rebuilds and installs the table never indexes outside the
\* bucket array, and returns what a Search(k) entirely before or entirely
\* after the rebuild returns.
ReadsDuringGrowOK ==
  /\ rd.pc # "panic"
  /\ rd.pc = "done" => rd.ret \in {rd.before, Search(c, rd.k)}

\* The slots of the bucket array of t that hold the key k.
slotsOf(t, k) == {q \in 0 .. cells(t) - 1 : oldKey(t, q) = k}

\* C16 (uniqueness): whenever a public operation has returned, every
\* non-zero key is held by at most one slot of the bucket array, and that
\* slot lies in one of the candidate buckets dohash gives for the key with
\* the seeds and logsize the table has now; no slot holds a key that is
\* not live.
Uniqueness ==
  pc \in {"idle", "return"}
    => \A k \in Keys \ {0} :
         /\ Cardinality(slotsOf(c, k)) <= 1
         /\ \A q \in slotsOf(c, k) :
              \E i \in 0 .. nhash - 1 : dohash(c, k)[i] = q \div blen
         /\ (slotsOf(c, k) # {}) = gmap[k][2]

\* An Insert has returned after a rebuild that drew other seeds, with
\* three non-zero keys in the bucket array.
UniquenessWitness ==
  /\ returned("Insert")
  /\ rebuilds(c) > rebuilds(pre.t)
  /\ c.seed # pre.t.seed
  /\ \A k \in 1 .. 3 : Cardinality(slotsOf(c, k)) = 1

\* C17 (suspension invariant): whenever Insert or Delete returns, and
\* whenever the table is idle, there is no suspended entry; while there is
\* one, an Insert is running, the suspended key is not 0 and is in no slot,
\* and the slots and the suspended entry together hold exactly the live
\* non-zero keys, so one entry is suspended and no more.
NoSuspendedAtReturn ==
  /\ pc \in {"idle", "return"} => ~c.eitem
  /\ c.eitem => /\ op.name = "Insert"
                /\ c.ekey # 0
                /\ slotsOf(c, c.ekey) = {}
                /\ \A k \in Keys \ {0} :
                     gmap[k][2] = (slotsOf(c, k) # {} \/ k = c.ekey)

\* An Insert returns after a walk had failed: the entry that was suspended
\* sits in a slot of the rebuilt table and is no longer marked.
NoSuspendedAtReturnWitness ==
  /\ returned("Insert")
  /\ rebuilds(c) > rebuilds(pre.t)
  /\ ~c.eitem
  /\ c.ekey # 0
  /\ c.ekey # op.k
  /\ slotsOf(c, c.ekey) # {}

\* C18 (a failed rebuild changes nothing, a successful one replaces the
\* table at once): no step of tryGrow before its last changes the table c,
\* so a tryGrow that returns false leaves buckets, logsize, seeds,
\* nentries, zero cell, suspended entry and counters as they were; the
\* last step of a tryGrow that returns true replaces the whole table by
\* the rebuilt one, whose logsize is the old one plus delta and which has
\* 2^logsize buckets.
RebuildAtomic ==
  [][/\ (\/ pc \in {"tryGrow", "migrate", "abandon"}
         \/ (pc \in {"tryInsert", "tryGreedyAdd"} /\ ctx \in {"migrate", "reinsert"}))
          => c' = c
     /\ pc = "commit"
          => /\ c' = cnew
             /\ c'.logsize = c.logsize + delta
             /\ Cardinality(DOMAIN c'.buckets) = 2 ^ (c.logsize + delta)]_vars

\* In one Insert the rehash has failed, leaving the table as it was, and
\* then the grow by one has been installed.
RebuildAtomicWitness ==
  /\ op.name = "Insert" /\ pc = "tryInsert" /\ ctx = "Insert"
  /\ belowRehashThreshold(pre.t)
  /\ c.nrehash = pre.t.nrehash
  /\ c.ngrow = pre.t.ngrow + 1
  /\ c.logsize = pre.t.logsize + 1
  /\ Cardinality(DOMAIN c.buckets) = 2 * Cardinality(DOMAIN pre.t.buckets)

\* C19 (shrink floor): a Delete on a table whose logsize is at least the
\* floor leaves a table whose logsize is at least the floor.
ShrinkFloorKept ==
  (returned("Delete") /\ pre.t.logsize >= shrinkFloor) => c.logsize >= shrinkFloor

\* C20 (walk budget and suspension): a walk on a table of logsize L makes
\* at most (1 + L) * randomWalkCoefficient displacements, one per step;
\* when the budget is used up the walk returns failure to its caller,
\* displaces nothing more, and stores the pair in hand as the suspended
\* entry.
WalkBudget ==
  [][pc = "tryGreedyAdd"
       => /\ w.step <= (1 + target.logsize) * randomWalkCoefficient
          /\ w'.step <= (1 + target.logsize) * randomWalkCoefficient
          /\ pc' = "tryGreedyAdd" => w'.step = w.step + 1
          /\ w.step = (1 + target.logsize) * randomWalkCoefficient
               => /\ pc' \in {"tryGrow", "abandon"}
                  /\ target'.buckets = target.buckets
                  /\ target'.nentries = target.nentries
                  /\ target'.eitem
                  /\ target'.ekey = w.k
                  /\ target'.eval = w.v]_vars

\* A walk of an Insert has used up its budget: the entry suspended is not
\* the one the Insert came with, which now sits in a slot.
WalkBudgetWitness ==
  /\ op.name = "Insert" /\ pc = "tryGrow" /\ gi = 0
  /\ c.eitem
  /\ c.ekey # op.k
  /\ slotsOf(c, op.k) # {}
  /\ c.nrehash = pre.t.nrehash

\* The number of slots of t that hold the pair (k, v).
pairsIn(t, k, v) ==
  Cardinality({q \in 0 .. cells(t) - 1 : oldKey(t, q) = k /\ oldVal(t, q) = v})

\* 1 if the walk x has the pair (k, v) in hand, 0 otherwise.
inHand(x, k, v) == IF x.k = k /\ x.v = v THEN 1 ELSE 0

\* C21 (the eviction walk conserves entries): all along a walk of an
\* Insert the slots and the hand together hold each live non-zero key once
\* with its value, the pair of the Insert included, and nothing else; every
\* step of a walk inside a rebuild leaves the multiset of the pairs in the
\* slots together with the pair in hand as it was; the step that succeeds
\* leaves every pair, the one in hand included, in a slot and nothing in
\* hand; the walk that fails leaves the slots as they were and the pair in
\* hand as the suspended entry.
WalkConserves ==
  [][pc = "tryGreedyAdd"
       => \A k \in Keys \ {0}, v \in Values :
            /\ ctx = "Insert"
                 => pairsIn(c, k, v) + inHand(w, k, v)
                      = (IF gmap[k] = <<v, TRUE>> THEN 1 ELSE 0)
            /\ IF pc' = "tryGreedyAdd"
               THEN ctx # "Insert"
                      => pairsIn(cnew', k, v) + inHand(w', k, v)
                           = pairsIn(cnew, k, v) + inHand(w, k, v)
               ELSE IF w.step < maxSteps(target)
               THEN /\ pairsIn(IF ctx = "Insert" THEN c' ELSE cnew', k, v)
                         = pairsIn(target, k, v) + inHand(w, k, v)
                    /\ w' = noWalk
                    /\ pc' \in {"return", "migrate", "commit"}
               ELSE /\ pairsIn(IF ctx = "Insert" THEN c' ELSE cnew', k, v)
                         = pairsIn(target, k, v)
                    /\ (IF ctx = "Insert" THEN c' ELSE cnew').eitem
                    /\ (IF ctx = "Insert" THEN c' ELSE cnew').ekey = w.k
                    /\ (IF ctx = "Insert" THEN c' ELSE cnew').eval = w.v
                    /\ pc' \in {"tryGrow", "abandon"}]_vars

\* A walk of an Insert is under way: the pair of the Insert sits in a slot
\* and an evicted pair is in hand.
WalkConservesWitness ==
  /\ pc = "tryGreedyAdd" /\ ctx = "Insert"
  /\ w.step >= 1
  /\ w.k # op.k
  /\ pairsIn(c, op.k, op.v) = 1
  /\ pairsIn(c, w.k, w.v) = 0

\* C22 (rehash before grow): when tryInsert fails inside Insert, the first
\* rebuild attempted has delta 0 if nentries / (N * B) < 9/10 and delta 1
\* otherwise; a rebuild is attempted only after that failure or after a
\* failed rebuild, and then with the previous delta plus one; the rebuild
\* that succeeds is followed by tryInsert on the rebuilt table.
RehashBeforeGrow ==
  [][op.name = "Insert"
       => /\ (pc = "tryGreedyAdd" /\ ctx = "Insert" /\ pc' # "tryGreedyAdd" /\ pc' # "return")
               => /\ pc' = "tryGrow"
                  /\ delta' = (IF Len(c') * rehashDen < rehashNum * cells(c') THEN 0 ELSE 1)
          /\ pc' = "tryGrow"
               => \/ pc = "tryGreedyAdd" /\ ctx = "Insert"
                  \/ pc = "abandon" /\ delta' = delta + 1 /\ c' = c
          /\ pc = "tryGrow" => pc' \in {"migrate", "panic"}
          /\ pc = "abandon" => pc' = "tryGrow"
          /\ pc = "commit"
               => /\ pc' = "tryInsert" /\ ctx' = "Insert"
                  /\ c' = cnew
                  /\ c'.logsize = c.logsize + delta]_vars

\* In an Insert on a table below the threshold the rebuilds with delta 0
\* and delta 1 have failed and the one with delta 2 is about to start.
RehashBeforeGrowWitness ==
  /\ op.name = "Insert" /\ pc = "tryGrow"
  /\ delta = 2
  /\ c.eitem
  /\ Len(c) * rehashDen < rehashNum * cells(c)

\* C23 (the suspended entry is reinserted last): in a rebuild the
\* suspended entry of the old table is in no slot of the new table while
\* the old slots are being placed; its insertion starts only when every
\* pair of the old bucket array sits in the new one, and no rebuild of a
\* table with a suspended entry is installed without it; a rebuild in
\* which the walk for an old entry or for the suspended entry fails is
\* abandoned: the table stays as it was and tryGrow reports failure for
\* that delta.
SuspendedLast ==
  [][/\ (ctx = "migrate" /\ c.eitem) => slotsOf(cnew, c.ekey) = {}
     /\ (pc' = "tryInsert" /\ ctx' = "reinsert")
          => /\ pc = "migrate" /\ c.eitem
             /\ cnew'.ekey = c.ekey /\ cnew'.eval = c.eval
             /\ \A k \in Keys \ {0}, v \in Values :
                  pairsIn(cnew', k, v) = pairsIn(c, k, v)
     /\ (pc = "migrate" /\ pc' = "commit") => ~c.eitem
     /\ (pc' = "commit" /\ c.eitem)
          => /\ ctx = "reinsert"
             /\ Search(cnew', c.ekey) = <<c.eval, TRUE>>
             /\ ~cnew'.eitem
     /\ (pc \in {"tryInsert", "tryGreedyAdd"} /\ ctx \in {"migrate", "reinsert"}
           /\ pc' \notin {"tryGreedyAdd", "migrate", "commit"})
          => pc' = "abandon"
     /\ pc = "abandon"
          => /\ c' = c
             /\ cnew' = zeroCuckoo
             /\ IF op.name = "Insert" THEN pc' = "tryGrow" /\ delta' = delta + 1
                ELSE \/ pc' = "tryGrow" /\ delta' = delta + 1
                     \/ pc' = "return" /\ delta = 0 - 1]_vars

\* A rebuild is ready to be installed: the suspended entry of the old
\* table was inserted after the two entries of its bucket array.
SuspendedLastWitness ==
  /\ pc = "commit" /\ ctx = "reinsert"
  /\ c.eitem
  /\ c.nentries >= 2
  /\ cnew.nentries = c.nentries + 1
  /\ slotsOf(cnew, c.ekey) # {}

\* The bucket b of t has a free slot.
hasFree(t, b) == \E i \in 0 .. blen - 1 : t.buckets[b].keys[i] = 0

\* C24 (origin-bucket exclusion): tryAdd with ignore set never writes to
\* the bucket except, whether or not that bucket is among the candidates
\* and has a free slot, and it adds exactly when another candidate bucket
\* has a free slot; and in every step of the eviction walk the slot the
\* pair in hand is written to held the evicted key, which afterwards is
\* in no slot of that bucket: it is in a slot of another bucket or in
\* hand.
OriginExcluded ==
  [][/\ pc = "idle"
          => \A k \in Keys \ {0}, v \in Values, d \in 0 .. nhash - 1 :
               /\ tryAdd(c, k, v, dohash(c, k), TRUE, dohash(c, k)[d]).t.buckets[dohash(c, k)[d]]
                    = c.buckets[dohash(c, k)[d]]
               /\ tryAdd(c, k, v, dohash(c, k), TRUE, dohash(c, k)[d]).added
                    = (\E e \in 0 .. nhash - 1 :
                         /\ dohash(c, k)[e] # dohash(c, k)[d]
                         /\ hasFree(c, dohash(c, k)[e]))
     /\ (pc = "tryGreedyAdd" /\ w.step < maxSteps(target))
          => \A q \in 0 .. cells(target) - 1 :
               oldKey(IF ctx = "Insert" THEN c' ELSE cnew', q) # oldKey(target, q)
                 => /\ \/ oldKey(IF ctx = "Insert" THEN c' ELSE cnew', q) = w.k
                       \/ oldKey(target, q) = 0
                    /\ oldKey(IF ctx = "Insert" THEN c' ELSE cnew', q) = w.k
                         => \A i \in 0 .. blen - 1 :
                              (IF ctx = "Insert" THEN c' ELSE cnew').buckets[q \div blen].keys[i]
                                # oldKey(target, q)]_vars

\* An Insert has returned after a walk and no rebuild: an entry that was in
\* the table sits in another bucket than before, and the key inserted
\* sits in the slot it was evicted from.
OriginExcludedWitness ==
  /\ returned("Insert")
  /\ rebuilds(c) = rebuilds(pre.t)
  /\ \E e \in Keys \ {0, op.k} :
       \E q \in slotsOf(pre.t, e), q2 \in slotsOf(c, e) :
         /\ q2 \div blen # q \div blen
         /\ oldKey(c, q) = op.k

\* C25 (shrink trigger and order): Delete(k) starts shrinking only for
\* k # 0 and only when, after the removal, nentries * 2^shrinkFactor is
\* less than N * B (and always then, 1 << uint(n) being 0 for a negative
\* n); the first rebuild it attempts has delta = -shrinkFactor; a rebuild
\* that fails leaves the table as it was and is followed by the one with
\* the delta one closer to 0, and after delta = -1 Delete returns; the
\* first rebuild that succeeds is installed and Delete returns, so a
\* Delete shrinks the table at most once.
ShrinkOrder ==
  [][op'.name = "Delete"
       => /\ (pc = "idle" /\ pc' = "tryGrow")
               => /\ delta' = 0 - shrinkFactor
                  /\ op'.k # 0
                  /\ Len(c') * (2 ^ shrinkFactor) < cells(c')
          /\ (pc = "idle" /\ pc' # "tryGrow")
               => /\ pc' = "return"
                  /\ \/ op'.k = 0
                     \/ c'.logsize + bshift < shrinkFactor
                     \/ Len(c') * (2 ^ shrinkFactor) >= cells(c')
          /\ (pc # "idle" /\ pc' = "tryGrow")
               => /\ pc \in {"tryGrow", "abandon"}
                  /\ c' = c
                  /\ delta' = delta + 1
                  /\ delta' <= 0 - 1
          /\ (pc \in {"tryGrow", "abandon"} /\ pc' = "return")
               => c' = c /\ delta = 0 - 1
          /\ pc = "commit"
               => /\ pc' = "return"
                  /\ c'.logsize = c.logsize + delta
                  /\ c'.nshrink = pre.t.nshrink + 1
          /\ pc' = "return" => pc \in {"idle", "tryGrow", "abandon", "commit"}
          /\ c'.nshrink <= pre'.t.nshrink + 1]_vars

\* A Delete returns after the shrink by shrinkFactor has failed on a walk
\* and the shrink by one less has been installed.
ShrinkOrderWitness ==
  /\ returned("Delete")
  /\ c.logsize = pre.t.logsize - 1
  /\ c.logsize > pre.t.logsize - shrinkFactor
  /\ c.nshrink = pre.t.nshrink + 1
  /\ c.nentries = pre.t.nentries - 1

\* The zero cell of t.
zeroCell(t) == <<t.zeroValue, t.zeroIsSet>>

\* C26 (the key 0 stays out of band): Insert(0, v) and Delete(0) change
\* the zero cell and nothing else of the table (buckets, logsize, seeds
\* and counters stay), and Search(0) changes nothing and answers from the
\* zero cell whatever the buckets hold; the zero cell is written by these
\* two operations only, a rebuild carrying it over as it is; and a slot
\* whose key is 0 holds no value, in the table and in the table under
\* construction.
ZeroOutOfBand ==
  [][/\ (pc = "idle" /\ op'.k = 0 /\ op'.name \in {"Insert", "Delete"})
          => /\ c' = [c EXCEPT !.zeroIsSet = (op'.name = "Insert"),
                               !.zeroValue = op'.v]
             /\ pc' = "return"
     /\ (pc = "idle" /\ op'.k = 0 /\ op'.name = "Search")
          => /\ c' = c
             /\ ret' = (IF c.zeroIsSet THEN <<c.zeroValue, TRUE>> ELSE notFound)
             /\ ret' = Search([c EXCEPT !.buckets = alloc(Shl1(c.logsize))], 0)
     /\ zeroCell(c') # zeroCell(c)
          => (pc = "idle" /\ op'.k = 0 /\ op'.name \in {"Insert", "Delete"})
     /\ cnew # zeroCuckoo => zeroCell(cnew) = zeroCell(c)
     /\ pc \in {"idle", "return"} => zeroCell(c) = gmap[0]
     /\ \A q \in 0 .. cells(c) - 1 : oldKey(c, q) = 0 => oldVal(c, q) = zero
     /\ \A q \in 0 .. cells(cnew) - 1 : oldKey(cnew, q) = 0 => oldVal(cnew, q) = zero]_vars

\* Insert(0, v) with a value other than zero has returned on a table that
\* holds entries and has free slots: buckets and count are as before.
ZeroOutOfBandWitness ==
  /\ returned("Insert")
  /\ op.k = 0 /\ op.v # zero
  /\ zeroCell(c) = <<op.v, TRUE>>
  /\ c.nentries >= 2
  /\ c.nentries < cells(c)
  /\ c.buckets = pre.t.buckets
  /\ c.nentries = pre.t.nentries

\* The candidates of k in t list a bucket more than once.
duplicateCandidates(t, k) ==
  \E i, j \in 0 .. nhash - 1 : i < j /\ dohash(t, k)[i] = dohash(t, k)[j]

\* The number of occupied slots of t.
occupied(t) == Cardinality(occupiedFrom(t, 0))

\* C27 (duplicate candidates are harmless): for every non-zero key,
\* whether its candidates list a bucket twice or not, Insert returns with
\* the key in exactly one slot, found by Search with the value inserted,
\* and with one more occupied slot and nentries one more if the key was
\* absent and both as before if it was present; Delete returns with the
\* key in no slot, and with one occupied slot less and nentries one less
\* if the key was present and both as before if it was absent; Search
\* returns what the map holds; no other key is affected.
DuplicateCandidatesHarmless ==
  (pc = "return" /\ op.name \in {"Insert", "Delete", "Search"} /\ op.k # 0)
    => /\ \A k \in Keys \ {0, op.k} :
            /\ Search(c, k) = Search(pre.t, k)
            /\ Cardinality(slotsOf(c, k)) = Cardinality(slotsOf(pre.t, k))
       /\ op.name = "Insert"
            => /\ Cardinality(slotsOf(c, op.k)) = 1
               /\ Search(c, op.k) = <<op.v, TRUE>>
               /\ occupied(c) = occupied(pre.t) + (IF pre.m[op.k][2] THEN 0 ELSE 1)
               /\ c.nentries = pre.t.nentries + (IF pre.m[op.k][2] THEN 0 ELSE 1)
       /\ op.name = "Delete"
            => /\ slotsOf(c, op.k) = {}
               /\ Search(c, op.k) = notFound
               /\ occupied(c) = occupied(pre.t) - (IF pre.m[op.k][2] THEN 1 ELSE 0)
               /\ c.nentries = pre.t.nentries - (IF pre.m[op.k][2] THEN 1 ELSE 0)
       /\ op.name = "Search"
            => /\ ret = gmap[op.k]
               /\ c = pre.t

\* Delete of a present key whose two candidates are the same bucket has
\* returned, without a shrink: one slot less is occupied and nentries is
\* one less, other entries being left.
DuplicateCandidatesHarmlessWitness ==
  /\ returned("Delete")
  /\ op.k # 0
  /\ duplicateCandidates(pre.t, op.k)
  /\ pre.m[op.k][2]
  /\ c.nshrink = pre.t.nshrink
  /\ c.nentries = pre.t.nentries - 1
  /\ c.nentries >= 1

\* The bucket array of t has exactly 2^logsize buckets and every candidate
\* dohash gives on t is an index of it.
wellSized(t) ==
  /\ t.logsize >= 0
  /\ DOMAIN t.buckets = 0 .. (2 ^ t.logsize) - 1
  /\ \A k \in WideKeys \ {0}, d \in 0 .. nhash - 1 :
       dohash(t, k)[d] \in DOMAIN t.buckets

\* C28 (bucket array size and index safety): once built, the table, and
\* the table under construction in a rebuild, has exactly 2^logsize
\* buckets, and every candidate dohash gives is an index of the array; in
\* a walk the candidates in hand are indices of the array and, whatever
\* the random word, the victim is slot i < B of the bucket at position
\* d < D of the shuffled candidates, which is an index of the array.
IndexSafety ==
  /\ c # zeroCuckoo => wellSized(c)
  /\ cnew # zeroCuckoo => wellSized(cnew)
  /\ pc = "tryGreedyAdd"
       => /\ \A d \in 0 .. nhash - 1 : w.h[d] \in DOMAIN target.buckets
          /\ \A r \in RandomWords :
               /\ (r \div (2 ^ (nhash * nhashshift))) % (bmask + 1) \in 0 .. blen - 1
               /\ ((r \div (2 ^ (nhash * nhashshift))) \div (2 ^ bshift)) % (nhashmask + 1)
                    \in 0 .. nhash - 1
               /\ shuffle(w.h, r)[((r \div (2 ^ (nhash * nhashshift))) \div (2 ^ bshift))
                                    % (nhashmask + 1)]
                    \in DOMAIN target.buckets

\* A walk for the suspended entry runs on the table under construction in
\* a grow, with a candidate in hand that is an index of the new array only.
IndexSafetyWitness ==
  /\ pc = "tryGreedyAdd" /\ ctx = "reinsert"
  /\ cnew.logsize > c.logsize
  /\ \E d \in 0 .. nhash - 1 : w.h[d] \notin DOMAIN c.buckets

\* C29 (the walk never evicts an empty slot): all along a walk the key in
\* hand is not 0, the candidates in hand are those of that key, and every
\* one of these buckets is full, so the victim, slot i of one of them,
\* holds a non-zero key, which is the key in hand next; and no step of a walk or of a rebuild writes
\* the zero cell, which only the key-0 branch of tryAdd could do.
NoEmptyEviction ==
  [][/\ pc = "tryGreedyAdd"
          => /\ w.k # 0
             /\ {w.h[d] : d \in 0 .. nhash - 1}
                  = {dohash(target, w.k)[d] : d \in 0 .. nhash - 1}
             /\ \A d \in 0 .. nhash - 1 : ~hasFree(target, w.h[d])
             /\ \A d \in 0 .. nhash - 1, i \in 0 .. blen - 1 :
                  target.buckets[w.h[d]].keys[i] # 0
             /\ pc' = "tryGreedyAdd" => w'.k # 0
     /\ pc \in {"tryInsert", "tryGreedyAdd", "tryGrow", "migrate", "commit", "abandon"}
          => /\ zeroCell(c') = zeroCell(c)
             /\ cnew' # zeroCuckoo => zeroCell(cnew') = zeroCell(c)]_vars

\* A walk for the suspended entry has made a step on the table of a
\* rebuild while the key 0 is live with a value other than zero.
NoEmptyEvictionWitness ==
  /\ pc = "tryGreedyAdd" /\ ctx = "reinsert"
  /\ w.step >= 1
  /\ w.k # c.ekey
  /\ zeroCell(cnew) = <<1, TRUE>>

\* C30 (the counter matches the occupied slots): nentries of the table is
\* the number of slots whose key is not 0, when Insert or Delete has
\* returned and at every step in between; while an Insert has a suspended
\* entry, from the failed walk to the rebuild that succeeds, that entry is
\* in no slot and not counted, nentries being one less than the number of
\* live non-zero keys; the rebuilt table that is installed counts it.
CounterMatchesSlots ==
  /\ c.nentries = occupied(c)
  /\ c.eitem
       => /\ op.name = "Insert"
          /\ slotsOf(c, c.ekey) = {}
          /\ c.nentries = Cardinality(live(gmap) \ {0}) - 1
  /\ (~c.eitem /\ pc \in {"idle", "return"})
       => c.nentries = Cardinality(live(gmap) \ {0})
  /\ pc = "commit"
       => /\ cnew.nentries = occupied(cnew)
          /\ cnew.nentries = c.nentries + (IF c.eitem THEN 1 ELSE 0)

\* In an Insert a rebuild has just failed and the next is to come: two
\* entries are in slots and counted, the third is suspended.
CounterMatchesSlotsWitness ==
  /\ op.name = "Insert" /\ pc = "abandon"
  /\ c.eitem
  /\ c.nentries = 2
  /\ occupied(c) = 2
  /\ Cardinality(live(gmap) \ {0}) = 3

====
